---- MODULE Spec2Model ----
(***************************************************************************)
(* Model of the Global WACC Calculator (src/WACC-Calculator.py, the code   *)
(* that starts at line 658): the cached FX rate fetcher get_fx_rate, the   *)
(* capital source aggregation render_capital_sources and the WACC script.  *)
(*                                                                         *)
(* Floats are modelled as exact rationals <<n, d>> in lowest terms with    *)
(* d > 0; a NaN close is a quote kind of its own.                          *)
(***************************************************************************)
EXTENDS Integers, Sequences, FiniteSets, TLC

(***************************************************************************)
(* Rational arithmetic.                                                    *)
(***************************************************************************)
Abs(n) == IF n < 0 THEN -n ELSE n

RECURSIVE GCD(_, _)
GCD(a, b) == IF b = 0 THEN a ELSE GCD(b, a % b)

\* The rational n/d (d # 0) in lowest terms with a positive denominator.
Rat(n, d) ==
    LET g == GCD(Abs(n), Abs(d))
        s == IF d < 0 THEN -1 ELSE 1
    IN  <<(s * n) \div g, (s * d) \div g>>

Zero == <<0, 1>>
One == <<1, 1>>

RMul(a, b) ==
    LET g1 == GCD(Abs(a[1]), b[2])
        g2 == GCD(Abs(b[1]), a[2])
    IN  <<(a[1] \div g1) * (b[1] \div g2), (a[2] \div g2) * (b[2] \div g1)>>
RDiv(a, b) ==
    IF b[1] = 0 THEN <<a[1] * b[2], 0>>
    ELSE RMul(a, IF b[1] < 0 THEN <<-b[2], -b[1]>> ELSE <<b[2], b[1]>>)
RAdd(a, b) ==
    LET g == GCD(a[2], b[2])
    IN  Rat(a[1] * (b[2] \div g) + b[1] * (a[2] \div g), a[2] * (b[2] \div g))
RNeg(a) == <<-a[1], a[2]>>
RSub(a, b) == RAdd(a, RNeg(b))
RLt(a, b) == a[1] * b[2] < b[1] * a[2]
RLe(a, b) == a[1] * b[2] <= b[1] * a[2]
RPos(a) == a[1] > 0
RAbs(a) == <<Abs(a[1]), a[2]>>

RECURSIVE RPow(_, _)
RPow(a, n) == IF n = 0 THEN One ELSE RMul(a, RPow(a, n - 1))

(***************************************************************************)
(* Naturals of two limbs <<hi, lo>> = hi * Base + lo, for products that do *)
(* not fit the integers of the checker.                                    *)
(***************************************************************************)
Base == 1000000

WNat(n) == <<n \div Base, n % Base>>

\* w * k for a small k.
WMul(w, k) ==
    LET lo == w[2] * k
    IN  <<w[1] * k + lo \div Base, lo % Base>>

WLe(a, b) == a[1] < b[1] \/ (a[1] = b[1] /\ a[2] <= b[2])

\* a - b for b <= a.
WSub(a, b) ==
    IF a[2] >= b[2] THEN <<a[1] - b[1], a[2] - b[2]>>
    ELSE <<a[1] - b[1] - 1, a[2] + Base - b[2]>>

\* w * k^n
RECURSIVE WMulPow(_, _, _)
WMulPow(w, k, n) == IF n = 0 THEN w ELSE WMulPow(WMul(w, k), k, n - 1)

\* Quotient and remainder of a by b, for a small quotient.
RECURSIVE WDivMod(_, _)
WDivMod(a, b) ==
    IF WLe(b, a)
    THEN LET r == WDivMod(WSub(a, b), b) IN [q |-> r.q + 1, r |-> r.r]
    ELSE [q |-> 0, r |-> a]

\* floor(num / den * 10^k) and what is left, by long division.
RECURSIVE LongDiv(_, _, _)
LongDiv(num, den, k) ==
    IF k = 0 THEN WDivMod(num, den)
    ELSE LET p == LongDiv(num, den, k - 1)
             d == WDivMod(WMul(p.r, 10), den)
         IN  [q |-> p.q * 10 + d.q, r |-> d.r]

\* num / den rounded to k decimals, in units of 10^-k.
Rounded(num, den, k) == (LongDiv(num, den, k + 1).q + 5) \div 10

(***************************************************************************)
(* Bounds and program constants.                                           *)
(***************************************************************************)
\* ttl=3600 of @st.cache_data, in seconds.
TTL == 3600

\* Time advances in steps of TTL \div TicksPerTTL seconds.
TicksPerTTL == 2

TickSeconds == TTL \div TicksPerTTL

\* The currencies of CURRENCY_OPTIONS the model ranges over.
Currencies == {"USD", "EUR"}

\* Closing prices the market-data source may report.
Prices == {Rat(-1, 1), Zero, Rat(5, 6), One}

\* What one history() query can produce: a non-empty history whose last
\* close is a price or NaN, an empty history, or an exception raised by the
\* call (a transport error or the timeout=10 running out).
Quotes ==
    [kind : {"data"}, price : Prices]
        \cup {[kind |-> k, price |-> Zero] : k \in {"nan", "empty", "raised"}}

\* The quote drawn for a symbol the call does not look up (any one would do).
NotQueried == [kind |-> "empty", price |-> Zero]

\* The placeholder for a symbol that was not looked up.
NotAsked == [kind |-> "not asked", price |-> Zero]

(***************************************************************************)
(* get_fx_rate.                                                            *)
(***************************************************************************)
\* f"{a}{b}=X"
Ticker(a, b) == a \o b \o "=X"

\* The st.warning text of the final fallback.
FetchWarning(home_curr, foreign_curr) ==
    "Could not fetch FX rate for " \o foreign_curr \o "/" \o home_curr
        \o ". Please enter rate manually."

\* One try block: history() raised -> except: pass;
\* history empty -> skipped; otherwise Close.iloc[-1] is taken and used
\* when rate > 0 (false for zero, negatives and NaN).
QuoteUsable_NoValidation(q) == q.kind = "data"

QuoteUsable(q) == q.kind = "data" /\ RPos(q.price)

\* Variants of the body of get_fx_rate, each with one slip: no same-currency
\* shortcut; the direct symbol built in the wrong order; the inverse close
\* returned without inverting; no warning on the final fallback; a final
\* fallback of 0.
FxBody_NoShortcut(home_curr, foreign_curr, qd, qi) ==
    LET ticker == Ticker(foreign_curr, home_curr)
        ticker_rev == Ticker(home_curr, foreign_curr)
    IN  IF QuoteUsable(qd)
        THEN [ret |-> qd.price, queries |-> <<ticker>>, warnings |-> <<>>]
        ELSE IF QuoteUsable(qi)
        THEN [ret |-> RDiv(One, qi.price),
              queries |-> <<ticker, ticker_rev>>, warnings |-> <<>>]
        ELSE [ret |-> One, queries |-> <<ticker, ticker_rev>>,
              warnings |-> <<FetchWarning(home_curr, foreign_curr)>>]

FxBody_Variant(home_curr, foreign_curr, qd, qi, slip) ==
    IF home_curr = foreign_curr
    THEN [ret |-> One, queries |-> <<>>, warnings |-> <<>>]
    ELSE LET ticker == IF slip = "order" THEN Ticker(home_curr, foreign_curr)
                       ELSE Ticker(foreign_curr, home_curr)
             ticker_rev == IF slip = "order" THEN Ticker(foreign_curr, home_curr)
                           ELSE Ticker(home_curr, foreign_curr)
         IN  IF QuoteUsable(qd)
             THEN [ret |-> qd.price, queries |-> <<ticker>>, warnings |-> <<>>]
             ELSE IF QuoteUsable(qi)
             THEN [ret |-> IF slip = "no invert" THEN qi.price
                           ELSE RDiv(One, qi.price),
                   queries |-> <<ticker, ticker_rev>>, warnings |-> <<>>]
             ELSE [ret |-> IF slip = "zero" THEN Zero ELSE One,
                   queries |-> <<ticker, ticker_rev>>,
                   warnings |-> IF slip = "silent" THEN <<>>
                                ELSE <<FetchWarning(home_curr, foreign_curr)>>]

FxBody_WrongOrder(home_curr, foreign_curr, qd, qi) ==
    FxBody_Variant(home_curr, foreign_curr, qd, qi, "order")

FxBody_NoInvert(home_curr, foreign_curr, qd, qi) ==
    FxBody_Variant(home_curr, foreign_curr, qd, qi, "no invert")

FxBody_Silent(home_curr, foreign_curr, qd, qi) ==
    FxBody_Variant(home_curr, foreign_curr, qd, qi, "silent")

FxBody_FallbackZero(home_curr, foreign_curr, qd, qi) ==
    FxBody_Variant(home_curr, foreign_curr, qd, qi, "zero")

\* A body without the try blocks: a query that raises ends the call with
\* the exception instead of a rate (no return value, written <<0, 0>>).
FxBody_NoTry(home_curr, foreign_curr, qd, qi) ==
    LET r == FxBody_Variant(home_curr, foreign_curr, qd, qi, "none")
    IN  IF home_curr # foreign_curr /\ qd.kind = "raised"
        THEN [ret |-> <<0, 0>>, queries |-> <<Ticker(foreign_curr, home_curr)>>,
              warnings |-> <<>>]
        ELSE IF home_curr # foreign_curr /\ ~QuoteUsable(qd) /\ qi.kind = "raised"
        THEN [ret |-> <<0, 0>>, queries |-> r.queries, warnings |-> <<>>]
        ELSE r

\* The body of get_fx_rate when it is executed (a cache miss); qd and qi are
\* what the market-data source answers for the direct and the inverse
\* symbol. queries lists the symbols looked up, in order.
FxBody(home_curr, foreign_curr, qd, qi) ==
    IF home_curr = foreign_curr
    THEN [ret |-> One, queries |-> <<>>, warnings |-> <<>>]
    ELSE LET ticker == Ticker(foreign_curr, home_curr)
             ticker_rev == Ticker(home_curr, foreign_curr)
         IN  IF QuoteUsable(qd)
             THEN [ret |-> qd.price, queries |-> <<ticker>>, warnings |-> <<>>]
             ELSE IF QuoteUsable(qi)
             THEN [ret |-> RDiv(One, qi.price),
                   queries |-> <<ticker, ticker_rev>>, warnings |-> <<>>]
             ELSE [ret |-> One, queries |-> <<ticker, ticker_rev>>,
                   warnings |-> <<FetchWarning(home_curr, foreign_curr)>>]

(***************************************************************************)
(* The st.cache_data store of get_fx_rate: one entry per argument tuple.   *)
(***************************************************************************)
Keys == Currencies \X Currencies

Absent == [state |-> "absent"]

\* A stored entry is served while its age is below the ttl.
Fresh(e) == e.state = "cached" /\ e.age < TTL

EmptyCache == [k \in Keys |-> Absent]

\* The decorated function with the entry keyed by the home currency alone.
CachedCall_KeyedByHome(c, home_curr, foreign_curr, body) ==
    LET k == <<home_curr, home_curr>>
    IN  IF Fresh(c[k])
        THEN [ret |-> c[k].rate, queries |-> <<>>, warnings |-> c[k].warnings,
              hit |-> TRUE, cache |-> c]
        ELSE [ret |-> body.ret, queries |-> body.queries,
              warnings |-> body.warnings, hit |-> FALSE,
              cache |-> [c EXCEPT ![k] =
                  [state |-> "cached", rate |-> body.ret,
                   warnings |-> body.warnings, age |-> 0]]]

\* A decorator that stores resolved rates but not the fallback (a result
\* that came with a warning).
CachedCall_SkipsFallback(c, home_curr, foreign_curr, body) ==
    LET k == <<home_curr, foreign_curr>>
    IN  IF Fresh(c[k])
        THEN [ret |-> c[k].rate, queries |-> <<>>, warnings |-> c[k].warnings,
              hit |-> TRUE, cache |-> c]
        ELSE [ret |-> body.ret, queries |-> body.queries,
              warnings |-> body.warnings, hit |-> FALSE,
              cache |-> IF body.warnings # <<>> THEN c
                        ELSE [c EXCEPT ![k] =
                                 [state |-> "cached", rate |-> body.ret,
                                  warnings |-> body.warnings, age |-> 0]]]

\* The function without its decorator: every call runs the body.
CachedCall_NotStored(c, home_curr, foreign_curr, body) ==
    [ret |-> body.ret, queries |-> body.queries, warnings |-> body.warnings,
     hit |-> FALSE, cache |-> c]

\* The decorated function: serve a fresh entry (the stored return value and
\* the elements the call emitted), otherwise run the body, whose outcome is
\* body, and store it under the argument tuple.
CachedCall(c, home_curr, foreign_curr, body) ==
    LET k == <<home_curr, foreign_curr>>
    IN  IF Fresh(c[k])
        THEN [ret |-> c[k].rate, queries |-> <<>>, warnings |-> c[k].warnings,
              hit |-> TRUE, cache |-> c]
        ELSE [ret |-> body.ret, queries |-> body.queries,
              warnings |-> body.warnings, hit |-> FALSE,
              cache |-> [c EXCEPT ![k] =
                  [state |-> "cached", rate |-> body.ret,
                   warnings |-> body.warnings, age |-> 0]]]

\* A third currency of CURRENCY_OPTIONS, for sessions in which a source
\* goes from one foreign currency to another.
AllCurrencies == Currencies \cup {"GBP"}

AllKeys == AllCurrencies \X AllCurrencies

\* What the body of get_fx_rate can come to for a pair, over all answers of
\* the market-data source.
Resolutions ==
    [k \in AllKeys |-> {FxBody(k[1], k[2], qd, qi) : qd \in Quotes, qi \in Quotes}]

\* st.cache_data.clear()
ClearedCache(c) == [k \in DOMAIN c |-> Absent]

\* The ttl passes: every stored entry is expired.
Expired(c) ==
    [k \in DOMAIN c |-> IF c[k].state = "cached" THEN [state |-> "expired"] ELSE c[k]]

\* Entries that age but stay in the store at the ttl.
Aged_KeepsStale(c) ==
    [k \in DOMAIN c |->
        IF c[k].state = "cached"
        THEN [c[k] EXCEPT !.age = IF @ + TickSeconds >= TTL THEN TTL
                                  ELSE @ + TickSeconds]
        ELSE c[k]]

\* TickSeconds pass: entries age; an entry at the ttl is expired.
Aged(c) ==
    [k \in DOMAIN c |->
        IF c[k].state = "cached"
        THEN IF c[k].age + TickSeconds >= TTL
             THEN [state |-> "expired"]
             ELSE [c[k] EXCEPT !.age = @ + TickSeconds]
        ELSE c[k]]

(***************************************************************************)
(* get_all_fx_rates and its own st.cache_data store: one entry per         *)
(* (home_curr, foreign_currencies).                                        *)
(***************************************************************************)
\* The foreign_currencies lists the model ranges over.
CurrencyLists == {<<"EUR">>, <<"USD", "EUR">>}

BatchKeys == Currencies \X CurrencyLists

EmptyBatch == [k \in BatchKeys |-> Absent]

\* set(foreign_currencies) - {home_curr}
UniqueCurrencies(home_curr, foreign_currencies) ==
    {foreign_currencies[n] : n \in 1..Len(foreign_currencies)} \ {home_curr}

\* for foreign in unique_currencies: rates[foreign] = get_fx_rate(home_curr,
\* foreign), each call going through the store of get_fx_rate; answer gives
\* the two quotes of the market-data source per currency. since[foreign] is
\* the time in seconds since the rate was resolved.
RECURSIVE AllFxLoop(_, _, _, _)
AllFxLoop(acc, home_curr, todo, answer) ==
    IF todo = {} THEN acc
    ELSE LET foreign == CHOOSE f \in todo : TRUE
             call == CachedCall(acc.cache, home_curr, foreign,
                                FxBody(home_curr, foreign,
                                       answer[foreign][1], answer[foreign][2]))
             done == DOMAIN acc.rates \cup {foreign}
         IN  AllFxLoop(
                 [cache |-> call.cache,
                  rates |-> [f \in done |-> IF f = foreign THEN call.ret
                                            ELSE acc.rates[f]],
                  since |-> [f \in done |->
                                IF f # foreign THEN acc.since[f]
                                ELSE IF call.hit
                                THEN acc.cache[<<home_curr, foreign>>].age
                                ELSE 0],
                  queries |-> acc.queries \o call.queries,
                  warnings |-> acc.warnings \o call.warnings],
                 home_curr, todo \ {foreign}, answer)

\* The body of get_all_fx_rates: rates = {} and the loop.
AllFxBody(c, home_curr, foreign_currencies, answer) ==
    AllFxLoop([cache |-> c, rates |-> <<>>, since |-> <<>>,
               queries |-> <<>>, warnings |-> <<>>],
              home_curr, UniqueCurrencies(home_curr, foreign_currencies), answer)

\* The decorated get_all_fx_rates: a fresh entry of its own store is served
\* (the stored dict, however old the rates in it were when it was stored);
\* otherwise the body runs and the dict is stored at age 0.
CachedAllCall(b, c, home_curr, foreign_currencies, answer) ==
    LET k == <<home_curr, foreign_currencies>>
        body == AllFxBody(c, home_curr, foreign_currencies, answer)
    IN  IF Fresh(b[k])
        THEN [ret |-> b[k].rates,
              since |-> [f \in DOMAIN b[k].rates |-> b[k].since[f] + b[k].age],
              queries |-> <<>>, warnings |-> b[k].warnings, hit |-> TRUE,
              cache |-> c, batch |-> b]
        ELSE [ret |-> body.rates, since |-> body.since,
              queries |-> body.queries, warnings |-> body.warnings,
              hit |-> FALSE, cache |-> body.cache,
              batch |-> [b EXCEPT ![k] =
                  [state |-> "cached", rates |-> body.rates,
                   since |-> body.since, warnings |-> body.warnings,
                   age |-> 0]]]

\* The ttl passes: every stored dict is expired.
ExpiredBatch(b) ==
    [k \in BatchKeys |-> IF b[k].state = "cached" THEN [state |-> "expired"] ELSE b[k]]

\* TickSeconds pass in the store of get_all_fx_rates.
AgedBatch(b) ==
    [k \in BatchKeys |->
        IF b[k].state = "cached"
        THEN IF b[k].age + TickSeconds >= TTL
             THEN [state |-> "expired"]
             ELSE [b[k] EXCEPT !.age = @ + TickSeconds]
        ELSE b[k]]

(***************************************************************************)
(* The widgets and st.session_state.                                       *)
(***************************************************************************)
\* Rows per capital class the model ranges over (the widget allows 0..20).
MaxSources == 2

\* User interactions per session the model ranges over.
MaxEvents == 3

\* source_type of the two render_capital_sources calls, in script order.
Types == {"Equity", "Debt"}

Rows == 1..MaxSources

\* What makes a keyed widget the same widget from one run to the next, and so
\* lets it keep its value, is decided by the Streamlit release the app runs
\* on, which the repository does not pin: the key alone, or the key together
\* with the other arguments of the call (label, value=...).
WidgetIdentities == {"key", "params"}

\* The rule of the release this session runs on; "open" until a run comes
\* out differently under the two rules.
VARIABLE identity

\* default_cost of the two calls, in percent.
DefaultCost(type) == IF type = "Equity" THEN Rat(10, 1) ELSE Rat(5, 1)

\* The widget defaults of source i (1-based): currency index 0 for the
\* first source and 1 for the others, amount 100000.0, cost default_cost;
\* amt_curr is the currency in the label of the amount input.
DefaultRow(type, i) ==
    [curr |-> IF i = 1 THEN "USD" ELSE "EUR",
     amt |-> Rat(100000, 1),
     amt_curr |-> IF i = 1 THEN "USD" ELSE "EUR",
     cost_pct |-> DefaultCost(type)]

\* No value stored under an FX rate input key.
NoFx == [set |-> FALSE]

\* st.session_state at the first run: every widget at its default.
DefaultSession ==
    [home |-> "USD",
     tax_pct |-> Rat(21, 1),
     use_fx_growth |-> FALSE,
     growth_pct |-> Zero,
     horizon |-> 1,
     num |-> [t \in Types |-> 1],
     rows |-> [t \in Types |-> [i \in Rows |-> DefaultRow(t, i)]],
     fx |-> [t \in Types |-> [i \in Rows |-> NoFx]],
     prev |-> [t \in Types |-> [i \in Rows |-> "unset"]]]

\* Values the user may enter.
Amounts == {Zero, Rat(100000, 1), Rat(500000, 1)}
CostPcts == {Rat(5, 1), Rat(10, 1)}
TaxPcts == {Rat(20, 1), Rat(21, 1)}
GrowthPcts == {Rat(-50, 1), Zero, Rat(3, 1)}
Horizons == {1, 2}
ManualRates == {Rat(-1, 1), Zero, Rat(2, 1)}

\* Widgets that are not rendered in a run lose their value: the two
\* projection inputs while the checkbox is off, and the rows beyond
\* num_sources.
SidebarWidgets(ss) ==
    IF ss.use_fx_growth THEN ss
    ELSE [ss EXCEPT !.growth_pct = Zero, !.horizon = 1]

\* fx_growth_rate and fx_time_horizon as the sidebar leaves them.
FxGrowthRate(ss) ==
    IF ss.use_fx_growth THEN RDiv(ss.growth_pct, Rat(100, 1)) ELSE Zero

FxTimeHorizon(ss) == IF ss.use_fx_growth THEN ss.horizon ELSE 1

(***************************************************************************)
(* render_capital_sources.                                                 *)
(***************************************************************************)
\* '-' in the FX Rate column of a same-currency source.
Dash == <<0, 0>>

\* A test that sends every source through the conversion.
IsForeign_Always(source_curr, home_currency) == TRUE

\* if source_curr != home_currency
IsForeign(source_curr, home_currency) == source_curr # home_currency

\* if use_fx_growth and fx_growth_rate != 0
Projecting(use_fx_growth, fx_growth_rate) ==
    use_fx_growth /\ fx_growth_rate # Zero

\* live_rate * ((1 + fx_growth_rate) ** fx_time_horizon)
ProjectedRate(live_rate, fx_growth_rate, fx_time_horizon) ==
    RMul(live_rate, RPow(RAdd(One, fx_growth_rate), fx_time_horizon))

\* A projection that never goes below the current rate.
ProjectedRateWide_Floored(live_rate, fx_growth_rate, fx_time_horizon) ==
    IF fx_growth_rate[1] < 0
    THEN [num |-> WNat(live_rate[1]), den |-> WNat(live_rate[2])]
    ELSE [num |-> WMulPow(WNat(live_rate[1]),
                          fx_growth_rate[1] + fx_growth_rate[2], fx_time_horizon),
          den |-> WMulPow(WNat(live_rate[2]), fx_growth_rate[2], fx_time_horizon)]

\* The same product with two-limb numerator and denominator (not reduced):
\* for live_rate = a/b and 1 + fx_growth_rate = p/q it is a p^n / (b q^n).
ProjectedRateWide(live_rate, fx_growth_rate, fx_time_horizon) ==
    [num |-> WMulPow(WNat(live_rate[1]),
                     fx_growth_rate[1] + fx_growth_rate[2], fx_time_horizon),
     den |-> WMulPow(WNat(live_rate[2]), fx_growth_rate[2], fx_time_horizon)]

\* default_fx_rate, the value= of the FX rate input.
DefaultFxRate(live_rate, use_fx_growth, fx_growth_rate, fx_time_horizon) ==
    IF Projecting(use_fx_growth, fx_growth_rate)
    THEN ProjectedRate(live_rate, fx_growth_rate, fx_time_horizon)
    ELSE live_rate

InvalidRate(fx_rate) == RLe(fx_rate, Zero)

\* f"Invalid FX rate for source {i+1}. Must be > 0." for the source numbered
\* i from 1.
InvalidRateError(i) ==
    "Invalid FX rate for source " \o ToString(i) \o ". Must be > 0."

\* A rate used as typed.
ValidatedRate_Unchecked(fx_rate) == fx_rate

\* fx_rate after 'if fx_rate <= 0: ... fx_rate = 1.0'.
ValidatedRate(fx_rate) == IF InvalidRate(fx_rate) THEN One ELSE fx_rate

\* home_value = raw_amount * fx_rate
HomeValue(raw_amount, fx_rate) == RMul(raw_amount, fx_rate)

\* An FX rate input that goes by the row alone: what it holds stays with the
\* row whatever pair is selected.
KeptInput_ByRow(stored, fx_input_key, changed, rule, default_fx_rate, projecting) ==
    stored

\* What the FX rate input of the row still holds when it is drawn: the
\* stored value if it was stored under fx_input_key (the key names the home
\* and the source currency), the code did not delete it (the currency of
\* the row is the one of prev_curr) and, under the rule that goes by the
\* arguments, the label and value= are the ones it was built with.
KeptInput(stored, fx_input_key, changed, rule, default_fx_rate, projecting) ==
    LET same_widget ==
            /\ stored.set /\ stored.key = fx_input_key
            /\ rule = "params"
                   => /\ stored.default = default_fx_rate
                      /\ stored.projected = projecting
    IN  IF same_widget /\ ~changed THEN stored ELSE NoFx

\* One iteration of the loop over the sources: st holds the cache, the
\* session state and the accumulators; body is what get_fx_rate comes to if
\* its body runs. A detail row carries the columns of the table (source,
\* currency, amount, fx_rate, home_value, cost_rate) and what the iteration
\* did: effective is fx_rate as the iteration leaves it.
RenderSource(st, type, i, body) ==
    LET ss == st.ss
        home_currency == ss.home
        row == ss.rows[type][i]
        source_curr == row.curr
        raw_amount == IF st.identity = "params" /\ row.amt_curr # source_curr
                      THEN Rat(100000, 1)
                      ELSE row.amt
        cost_rate == RDiv(row.cost_pct, Rat(100, 1))
        row1 == [row EXCEPT !.amt = raw_amount, !.amt_curr = source_curr]
    IN  IF IsForeign(source_curr, home_currency)
        THEN LET call == CachedCall(st.cache, home_currency, source_curr, body)
                 live_rate == call.ret
                 projecting == Projecting(ss.use_fx_growth, FxGrowthRate(ss))
                 default_fx_rate ==
                     DefaultFxRate(live_rate, ss.use_fx_growth, FxGrowthRate(ss),
                                   FxTimeHorizon(ss))
                 fx_input_key == <<home_currency, source_curr>>
                 prev0 == IF ss.prev[type][i] = "unset" THEN source_curr
                          ELSE ss.prev[type][i]
                 changed == prev0 # source_curr
                 stored == ss.fx[type][i]
                 kept == KeptInput(stored, fx_input_key, changed, st.identity,
                                   default_fx_rate, projecting)
                 widget == IF kept.set THEN kept.value ELSE default_fx_rate
                 typed == kept.set /\ kept.typed
                 invalid == InvalidRate(widget)
                 fx_rate == ValidatedRate(widget)
                 manual == RLt(Rat(1, 10000), RAbs(RSub(fx_rate, live_rate)))
                 home_value == HomeValue(raw_amount, fx_rate)
             IN  [identity |-> st.identity,
                  cache |-> call.cache,
                  ss |-> [ss EXCEPT
                             !.rows[type][i] = row1,
                             !.prev[type][i] = source_curr,
                             !.fx[type][i] = [set |-> TRUE, key |-> fx_input_key,
                                              value |-> widget, typed |-> typed,
                                              default |-> default_fx_rate,
                                              projected |-> projecting]],
                  total_value |-> RAdd(st.total_value, home_value),
                  total_weighted_cost |->
                      RAdd(st.total_weighted_cost, RMul(home_value, cost_rate)),
                  details |-> Append(st.details,
                      [source |-> i, currency |-> source_curr,
                       amount |-> raw_amount, fx_rate |-> fx_rate,
                       home_value |-> home_value, cost_rate |-> cost_rate,
                       called |-> TRUE, hit |-> call.hit,
                       warnings |-> call.warnings, live_rate |-> live_rate,
                       default_fx_rate |-> default_fx_rate,
                       projecting |-> projecting, typed |-> typed,
                       widget |-> widget, effective |-> fx_rate,
                       errors |-> IF invalid THEN <<InvalidRateError(i)>>
                                  ELSE <<>>,
                       invalid |-> invalid, manual |-> manual])]
        ELSE [identity |-> st.identity,
              cache |-> st.cache,
              ss |-> [ss EXCEPT !.rows[type][i] = row1, !.fx[type][i] = NoFx],
              total_value |-> RAdd(st.total_value, raw_amount),
              total_weighted_cost |->
                  RAdd(st.total_weighted_cost, RMul(raw_amount, cost_rate)),
              details |-> Append(st.details,
                  [source |-> i, currency |-> source_curr,
                   amount |-> raw_amount, fx_rate |-> Dash,
                   home_value |-> raw_amount, cost_rate |-> cost_rate,
                   called |-> FALSE, hit |-> FALSE, warnings |-> <<>>,
                   live_rate |-> Dash, default_fx_rate |-> Dash,
                   projecting |-> FALSE, typed |-> FALSE,
                   widget |-> Dash, effective |-> One, errors |-> <<>>,
                   invalid |-> FALSE, manual |-> FALSE])]

\* What get_fx_rate can come to for source i if its body runs: any outcome
\* for a foreign source without a fresh entry.
NoBody == [ret |-> One, queries |-> <<>>, warnings |-> <<>>]

RowResolutions(st, type, i) ==
    LET k == <<st.ss.home, st.ss.rows[type][i].curr>>
    IN  IF k[1] # k[2] /\ ~Fresh(st.cache[k]) THEN Resolutions[k] ELSE {NoBody}

\* for i in range(num_sources), from source i on: the states the loop can
\* end in, one for every way the market-data source may answer.
\* The iteration under the rule of the session; while the rule is open,
\* under both rules, and the rule stays open if they agree (as they do when
\* the source has no stored FX rate input and its amount input keeps its
\* label).
SourceOutcomes(st, type, i, body) ==
    IF st.identity \in WidgetIdentities THEN {RenderSource(st, type, i, body)}
    ELSE IF /\ ~st.ss.fx[type][i].set
            /\ st.ss.rows[type][i].amt_curr = st.ss.rows[type][i].curr
    THEN {RenderSource(st, type, i, body)}
    ELSE LET by == [rule \in WidgetIdentities |->
                       RenderSource([st EXCEPT !.identity = rule], type, i, body)]
         IN  IF [by["key"] EXCEPT !.identity = "open"]
                    = [by["params"] EXCEPT !.identity = "open"]
             THEN {[by["key"] EXCEPT !.identity = "open"]}
             ELSE {by["key"], by["params"]}

RECURSIVE RenderLoop(_, _, _)
RenderLoop(st, type, i) ==
    IF i > st.ss.num[type] THEN {st}
    ELSE UNION {RenderLoop(o, type, i + 1) :
                   o \in UNION {SourceOutcomes(st, type, i, body) :
                                   body \in RowResolutions(st, type, i)}}

\* The widgets of the rows beyond num_sources are not rendered.
UnrenderedRows(ss, type) ==
    [ss EXCEPT
        !.rows[type] = [i \in Rows |-> IF i > ss.num[type]
                                       THEN DefaultRow(type, i) ELSE @[i]],
        !.fx[type] = [i \in Rows |-> IF i > ss.num[type] THEN NoFx ELSE @[i]]]

\* render_capital_sources(source_type, ...): the totals start at 0.0; the
\* set of what the call can leave behind and return.
RenderCapitalSources(c, ss, type) ==
    {[st EXCEPT !.ss = UnrenderedRows(@, type)] :
        st \in RenderLoop([identity |-> identity,
                           cache |-> c, ss |-> ss, total_value |-> Zero,
                           total_weighted_cost |-> Zero, details |-> <<>>],
                          type, 1)}

\* The blended cost without the guard on the total.
BlendedCost_Unguarded(total_value, total_weighted_cost) ==
    RDiv(total_weighted_cost, total_value)

\* cost_of_equity / cost_of_debt: the blended cost of a class.
BlendedCost(total_value, total_weighted_cost) ==
    IF RLt(Zero, total_value)
    THEN RDiv(total_weighted_cost, total_value)
    ELSE Zero

(***************************************************************************)
(* The script below the functions.                                         *)
(***************************************************************************)
\* The 'Refresh FX Rates' branch of the sidebar with an st.rerun() that
\* restarts the app with its inputs lost.
Refreshed_InputsLost(c, ss) == [cache |-> ClearedCache(c), ss |-> DefaultSession]

\* The 'Refresh FX Rates' branch of the sidebar: st.cache_data.clear() and
\* two messages.
Refreshed(c, ss) == [cache |-> ClearedCache(c), ss |-> ss]

ZeroValueWarning == "Total firm value is zero."
NegativeWaccError == "Negative WACC detected."
HighWaccWarning == "WACC exceeds 100%."

\* Checks that also fire at the two ends of the range.
Anomalies_AtBounds(wacc) ==
    IF RLe(wacc, Zero) THEN <<NegativeWaccError>>
    ELSE IF RLe(One, wacc) THEN <<HighWaccWarning>>
    ELSE <<>>

\* Check for anomalies: what is drawn above the results.
Anomalies(wacc) ==
    IF RLt(wacc, Zero) THEN <<NegativeWaccError>>
    ELSE IF RLt(One, wacc) THEN <<HighWaccWarning>>
    ELSE <<>>

\* A WACC with the cost of debt taken before tax.
WaccCalculation_PreTaxDebt(equity_value, cost_of_equity, debt_value, cost_of_debt, tax_rate) ==
    LET total_firm_value == RAdd(equity_value, debt_value)
        equity_weight == RDiv(equity_value, total_firm_value)
        debt_weight == RDiv(debt_value, total_firm_value)
        tax_shield == RSub(One, tax_rate)
        wacc == RAdd(RMul(equity_weight, cost_of_equity),
                     RMul(debt_weight, cost_of_debt))
    IN  [status |-> "computed", total_firm_value |-> total_firm_value,
         equity_weight |-> equity_weight, debt_weight |-> debt_weight,
         tax_shield |-> tax_shield, wacc |-> wacc,
         messages |-> Anomalies(wacc)]

\* The WACC calculation: weights, tax shield, WACC and the anomaly checks.
WaccCalculation(equity_value, cost_of_equity, debt_value, cost_of_debt, tax_rate) ==
    LET total_firm_value == RAdd(equity_value, debt_value)
        equity_weight == RDiv(equity_value, total_firm_value)
        debt_weight == RDiv(debt_value, total_firm_value)
        tax_shield == RSub(One, tax_rate)
        wacc == RAdd(RMul(equity_weight, cost_of_equity),
                     RMul(RMul(debt_weight, cost_of_debt), tax_shield))
    IN  [status |-> "computed", total_firm_value |-> total_firm_value,
         equity_weight |-> equity_weight, debt_weight |-> debt_weight,
         tax_shield |-> tax_shield, wacc |-> wacc,
         messages |-> Anomalies(wacc)]

\* A validation that lets a zero total through to the results.
WaccResult_NoStop(equity_value, cost_of_equity, debt_value, cost_of_debt, tax_rate) ==
    IF RAdd(equity_value, debt_value) = Zero
    THEN [status |-> "computed", total_firm_value |-> Zero, messages |-> <<>>]
    ELSE WaccCalculation(equity_value, cost_of_equity, debt_value,
                         cost_of_debt, tax_rate)

\* An anomaly check that ends the run.
WaccResult_StopsOnAnomaly(equity_value, cost_of_equity, debt_value, cost_of_debt, tax_rate) ==
    LET total_firm_value == RAdd(equity_value, debt_value)
        r == WaccCalculation(equity_value, cost_of_equity, debt_value,
                             cost_of_debt, tax_rate)
    IN  IF total_firm_value = Zero
        THEN [status |-> "stopped", total_firm_value |-> total_firm_value,
              messages |-> <<ZeroValueWarning>>]
        ELSE IF r.messages # <<>>
        THEN [status |-> "stopped", total_firm_value |-> total_firm_value,
              messages |-> r.messages]
        ELSE r

\* From total_firm_value to the anomaly checks; st.stop() ends the run when
\* the total is zero.
WaccResult(equity_value, cost_of_equity, debt_value, cost_of_debt, tax_rate) ==
    LET total_firm_value == RAdd(equity_value, debt_value)
    IN  IF total_firm_value = Zero
        THEN [status |-> "stopped", total_firm_value |-> total_firm_value,
              messages |-> <<ZeroValueWarning>>]
        ELSE WaccCalculation(equity_value, cost_of_equity, debt_value,
                             cost_of_debt, tax_rate)

(***************************************************************************)
(* State.                                                                  *)
(***************************************************************************)
VARIABLES
    cache,      \* the st.cache_data store of get_fx_rate
    last,       \* the last direct call of get_fx_rate: arguments and outcome
    ss,         \* st.session_state: the widget values and the prev_curr keys
    clicked,    \* the 'Refresh FX Rates' button was pressed for this run
    pc,         \* where the script run stands
    events,     \* user interactions so far
    agg,        \* per class: what render_capital_sources returned, blended cost
    result,     \* the outcome of the WACC section of the run
    batch       \* the st.cache_data store of get_all_fx_rates

vars == <<cache, last, ss, clicked, pc, events, agg, result, identity, batch>>

app == <<ss, clicked, pc, events, agg, result>>

NoCall == [fn |-> "none", seq |-> 0]

NoAgg == [done |-> FALSE]

NoResult == [status |-> "none"]

\* The session starts with its first script run ahead.
Init ==
    /\ identity = "open"
    /\ cache = EmptyCache
    /\ batch = EmptyBatch
    /\ last = NoCall
    /\ ss = DefaultSession
    /\ clicked = FALSE
    /\ pc = "sidebar"
    /\ events = 0
    /\ agg = [t \in Types |-> NoAgg]
    /\ result = NoResult

\* A call get_fx_rate(home_curr, foreign_curr); the answers of the
\* market-data source to the symbols the call looks up are inputs. seq
\* alternates with every call; found is the state of the entry the lookup
\* met and since the time in seconds since the returned rate was resolved.
GetFxRate(home_curr, foreign_curr) ==
    /\ \E qd \in Quotes, qi \in Quotes :
        LET r == CachedCall(cache, home_curr, foreign_curr,
                            FxBody(home_curr, foreign_curr, qd, qi))
        IN  /\ Len(r.queries) < 1 => qd = NotQueried
            /\ Len(r.queries) < 2 => qi = NotQueried
            /\ cache' = r.cache
            /\ last' = [fn |-> "get_fx_rate", seq |-> 1 - last.seq,
                        home |-> home_curr, foreign |-> foreign_curr,
                        found |-> cache[<<home_curr, foreign_curr>>].state,
                        since |-> IF r.hit
                                  THEN cache[<<home_curr, foreign_curr>>].age
                                  ELSE 0,
                        direct |-> IF Len(r.queries) >= 1 THEN qd ELSE NotAsked,
                        inverse |-> IF Len(r.queries) >= 2 THEN qi ELSE NotAsked,
                        ret |-> r.ret, queries |-> r.queries,
                        warnings |-> r.warnings, hit |-> r.hit]
    /\ UNCHANGED <<app, identity, batch>>

\* TickSeconds pass.
Tick ==
    /\ cache' = Aged(cache)
    /\ batch' = AgedBatch(batch)
    /\ UNCHANGED <<last, app, identity>>

\* A call st.cache_data.clear(): the stores of both functions are emptied.
ClearCache ==
    /\ cache' = ClearedCache(cache)
    /\ batch' = EmptyBatch
    /\ UNCHANGED <<last, app, identity>>

\* The functions called on their own.
Next ==
    \/ \E h \in Currencies, f \in Currencies : GetFxRate(h, f)
    \/ Tick
    \/ ClearCache

Spec == Init /\ [][Next]_vars

(***************************************************************************)
(* get_fx_rate and get_all_fx_rates called on their own.                   *)
(***************************************************************************)
\* A call get_all_fx_rates(home_curr, foreign_currencies); answer is what
\* the market-data source would say for each currency of the loop.
GetAllFxRates(home_curr, foreign_currencies) ==
    /\ \E answer \in [UniqueCurrencies(home_curr, foreign_currencies)
                         -> Quotes \X Quotes] :
        LET r == CachedAllCall(batch, cache, home_curr, foreign_currencies, answer)
        IN  /\ \A f \in DOMAIN answer :
                   /\ Len(r.queries) < 1 => answer[f][1] = NotQueried
                   /\ Len(r.queries) < 2 => answer[f][2] = NotQueried
            /\ cache' = r.cache
            /\ batch' = r.batch
            /\ last' = [fn |-> "get_all_fx_rates", seq |-> 1 - last.seq,
                        home |-> home_curr,
                        foreign_currencies |-> foreign_currencies,
                        ret |-> r.ret, since |-> r.since, queries |-> r.queries,
                        warnings |-> r.warnings, hit |-> r.hit]
    /\ UNCHANGED <<app, identity>>

\* The home currency of the calls.
BatchHomes == {"EUR"}

BatchNext ==
    \/ \E h \in BatchHomes, f \in Currencies : GetFxRate(h, f)
    \/ \E h \in BatchHomes, l \in CurrencyLists : GetAllFxRates(h, l)
    \/ Tick
    \/ ClearCache

BatchSpec == Init /\ [][BatchNext]_vars

(***************************************************************************)
(* The app: every interaction stores a widget value and reruns the script. *)
(***************************************************************************)
Interact(ss2, click) ==
    /\ pc = "idle"
    /\ events < MaxEvents
    /\ ss2 # ss \/ click
    /\ ss' = ss2
    /\ clicked' = click
    /\ pc' = "sidebar"
    /\ events' = events + 1
    /\ UNCHANGED <<cache, last, agg, result, identity, batch>>

SelectHome == \E c \in Currencies : Interact([ss EXCEPT !.home = c], FALSE)

SetTaxRate == \E t \in TaxPcts : Interact([ss EXCEPT !.tax_pct = t], FALSE)

ToggleFxGrowth == Interact([ss EXCEPT !.use_fx_growth = ~@], FALSE)

SetGrowthRate ==
    /\ ss.use_fx_growth
    /\ \E g \in GrowthPcts : Interact([ss EXCEPT !.growth_pct = g], FALSE)

SetHorizon ==
    /\ ss.use_fx_growth
    /\ \E y \in Horizons : Interact([ss EXCEPT !.horizon = y], FALSE)

SetNumSources ==
    \E t \in Types, n \in 0..MaxSources : Interact([ss EXCEPT !.num[t] = n], FALSE)

SelectCurrency ==
    \E t \in Types, i \in Rows, c \in Currencies :
        /\ i <= ss.num[t]
        /\ Interact([ss EXCEPT !.rows[t][i].curr = c], FALSE)

SetAmount ==
    \E t \in Types, i \in Rows, a \in Amounts :
        /\ i <= ss.num[t]
        /\ Interact([ss EXCEPT !.rows[t][i].amt = a], FALSE)

SetCost ==
    \E t \in Types, i \in Rows, c \in CostPcts :
        /\ i <= ss.num[t]
        /\ Interact([ss EXCEPT !.rows[t][i].cost_pct = c], FALSE)

\* The user types a rate into the FX rate input of a foreign source.
SetFxRate ==
    \E t \in Types, i \in Rows, v \in ManualRates :
        /\ i <= ss.num[t]
        /\ ss.fx[t][i].set
        /\ ss.fx[t][i].value # v
        /\ Interact([ss EXCEPT !.fx[t][i].value = v, !.fx[t][i].typed = TRUE],
                    FALSE)

ClickRefresh == Interact(ss, TRUE)

\* The sidebar: the settings widgets and the refresh button.
Sidebar ==
    /\ pc = "sidebar"
    /\ LET r == IF clicked THEN Refreshed(cache, SidebarWidgets(ss))
                ELSE [cache |-> cache, ss |-> SidebarWidgets(ss)]
       IN  cache' = r.cache /\ ss' = r.ss
    /\ agg' = [t \in Types |-> NoAgg]
    /\ result' = NoResult
    /\ pc' = "equity"
    /\ batch' = IF clicked THEN EmptyBatch ELSE batch
    /\ UNCHANGED <<last, clicked, events, identity>>

\* One call of render_capital_sources and the blended cost after it.
Render(type, next) ==
    /\ \E r \in RenderCapitalSources(cache, ss, type) :
           /\ identity' = r.identity
           /\ cache' = r.cache
           /\ ss' = r.ss
           /\ agg' = [agg EXCEPT ![type] =
                  [done |-> TRUE, total_value |-> r.total_value,
                   total_weighted_cost |-> r.total_weighted_cost,
                   details |-> r.details,
                   cost |-> BlendedCost(r.total_value, r.total_weighted_cost)]]
    /\ pc' = next
    /\ UNCHANGED <<last, clicked, events, result, batch>>

RenderEquity == pc = "equity" /\ Render("Equity", "debt")

RenderDebt == pc = "debt" /\ Render("Debt", "wacc")

\* Validation, the WACC and the anomaly checks; the run ends.
Wacc ==
    /\ pc = "wacc"
    /\ result' = WaccResult(agg["Equity"].total_value, agg["Equity"].cost,
                            agg["Debt"].total_value, agg["Debt"].cost,
                            RDiv(ss.tax_pct, Rat(100, 1)))
    /\ pc' = "idle"
    /\ clicked' = FALSE
    /\ UNCHANGED <<cache, last, ss, events, agg, identity, batch>>

\* The user leaves the page alone for the ttl or longer.
IdleHour ==
    /\ pc = "idle"
    /\ events < MaxEvents
    /\ cache' = Expired(cache)
    /\ batch' = ExpiredBatch(batch)
    /\ events' = events + 1
    /\ UNCHANGED <<last, ss, clicked, pc, agg, result, identity>>

AppNext ==
    \/ SelectHome \/ SetTaxRate \/ ToggleFxGrowth \/ SetGrowthRate \/ SetHorizon
    \/ SetNumSources \/ SelectCurrency \/ SetAmount \/ SetCost \/ SetFxRate
    \/ ClickRefresh
    \/ Sidebar \/ RenderEquity \/ RenderDebt \/ Wacc
    \/ IdleHour

AppSpec == Init /\ [][AppNext]_vars

(***************************************************************************)
(* A session about the currency of one source: the user has removed the    *)
(* debt source and set the equity source to EUR (home currency USD), and   *)
(* goes on selecting currencies, out of three, typing rates and setting    *)
(* the projection.                                                         *)
(***************************************************************************)
\* The rate the user types.
TypedRates == {Rat(2, 1)}

SelectInit ==
    /\ identity = "open"
    /\ cache = [k \in AllKeys |-> Absent]
    /\ batch = EmptyBatch
    /\ last = NoCall
    /\ ss = [DefaultSession EXCEPT !.num["Debt"] = 0,
                                   !.rows["Equity"][1].curr = "EUR"]
    /\ clicked = FALSE
    /\ pc = "sidebar"
    /\ events = 0
    /\ agg = [t \in Types |-> NoAgg]
    /\ result = NoResult

SelectHomeAny == \E c \in AllCurrencies : Interact([ss EXCEPT !.home = c], FALSE)

SelectCurrencyAny ==
    \E t \in Types, i \in Rows, c \in AllCurrencies :
        /\ i <= ss.num[t]
        /\ Interact([ss EXCEPT !.rows[t][i].curr = c], FALSE)

TypeFxRate ==
    \E t \in Types, i \in Rows, v \in TypedRates :
        /\ i <= ss.num[t]
        /\ ss.fx[t][i].set
        /\ ss.fx[t][i].value # v
        /\ Interact([ss EXCEPT !.fx[t][i].value = v, !.fx[t][i].typed = TRUE],
                    FALSE)

SelectNext ==
    \/ SelectHomeAny \/ SelectCurrencyAny \/ TypeFxRate
    \/ ToggleFxGrowth \/ SetGrowthRate
    \/ Sidebar \/ RenderEquity \/ RenderDebt \/ Wacc

SelectSpec == SelectInit /\ [][SelectNext]_vars

(***************************************************************************)
(* The validation and WACC sections on their own: the five floats they     *)
(* read, of any sign and size. (Through the widgets of the app the costs   *)
(* and the tax rate stay within 0..100% and the values are never negative.)*)
(***************************************************************************)
Values == {Zero, Rat(500000, 1)}
Costs == {Rat(-1, 10), Zero, One, Rat(3, 2)}
TaxRatePcts == {Zero, Rat(20, 1), Rat(150, 1)}

\* What the section reads: the totals and blended costs of the two classes
\* and the tax rate.
Handed(total_value, cost) ==
    [done |-> TRUE, total_value |-> total_value,
     total_weighted_cost |-> RMul(total_value, cost), details |-> <<>>,
     cost |-> cost]

EnterWacc ==
    /\ pc # "wacc"
    /\ \E equity_value \in Values, cost_of_equity \in Costs,
          debt_value \in Values, cost_of_debt \in Costs, tax \in TaxRatePcts :
          /\ agg' = [t \in Types |->
                        IF t = "Equity" THEN Handed(equity_value, cost_of_equity)
                        ELSE Handed(debt_value, cost_of_debt)]
          /\ ss' = [ss EXCEPT !.tax_pct = tax]
    /\ result' = NoResult
    /\ pc' = "wacc"
    /\ UNCHANGED <<cache, last, clicked, events, identity, batch>>

WaccNext == EnterWacc \/ Wacc

WaccSpec == Init /\ [][WaccNext]_vars

(***************************************************************************)
(* A run over what the widgets let through: two sources per class with     *)
(* amounts from 0 up (min_value=0.0), rates above 0 (what the validation   *)
(* leaves), costs and a tax rate of 0% to 100% (min_value, max_value), the *)
(* ends of the ranges included.                                            *)
(***************************************************************************)
LegalAmounts == {Zero, Rat(100000, 1)}
LegalRates == {One, Rat(2, 1)}
LegalCostPcts == {Zero, Rat(5, 1), Rat(100, 1)}
LegalTaxPcts == {Zero, Rat(21, 1), Rat(100, 1)}

LegalSources ==
    [raw_amount : LegalAmounts, fx_rate : LegalRates, cost_pct : LegalCostPcts]

\* What render_capital_sources returns for the sources: the loop adds
\* home_value and home_value * cost_rate of every source.
RECURSIVE Aggregated(_)
Aggregated(sources) ==
    IF sources = <<>>
    THEN [total_value |-> Zero, total_weighted_cost |-> Zero]
    ELSE LET rest == Aggregated(Tail(sources))
             home_value == HomeValue(Head(sources).raw_amount, Head(sources).fx_rate)
             cost_rate == RDiv(Head(sources).cost_pct, Rat(100, 1))
         IN  [total_value |-> RAdd(home_value, rest.total_value),
              total_weighted_cost |->
                  RAdd(RMul(home_value, cost_rate), rest.total_weighted_cost)]

\* The run up to the validation: both classes aggregated and blended.
EnterLegal ==
    /\ pc = "sidebar"
    /\ \E equity \in LegalSources \X LegalSources,
          debt \in LegalSources \X LegalSources, tax \in LegalTaxPcts :
          /\ agg' = [t \in Types |->
                        LET a == Aggregated(IF t = "Equity" THEN equity ELSE debt)
                        IN  [done |-> TRUE, total_value |-> a.total_value,
                             total_weighted_cost |-> a.total_weighted_cost,
                             details |-> <<>>,
                             cost |-> BlendedCost(a.total_value,
                                                  a.total_weighted_cost)]]
          /\ ss' = [ss EXCEPT !.tax_pct = tax]
    /\ result' = NoResult
    /\ pc' = "wacc"
    /\ UNCHANGED <<cache, last, clicked, events, identity, batch>>

LegalNext == EnterLegal \/ Wacc

LegalSpec == Init /\ [][LegalNext]_vars

(***************************************************************************)
(* The projection on its own: any rate, any growth rate the input allows   *)
(* (-50% .. 50%) and the first years of the horizon input (1 .. 30).       *)
(***************************************************************************)
MaxYears == 5
LiveRates == {Rat(5, 6), One, Rat(21, 20), Rat(6, 5)}
GrowthRates == {Rat(-50, 100), Rat(-3, 100), Zero, Rat(3, 100), Rat(50, 100)}

Project(live_rate, fx_growth_rate, fx_time_horizon) ==
    /\ last' = [fn |-> "project", seq |-> 1 - last.seq,
                live_rate |-> live_rate, fx_growth_rate |-> fx_growth_rate,
                fx_time_horizon |-> fx_time_horizon,
                projected_rate |->
                    ProjectedRateWide(live_rate, fx_growth_rate, fx_time_horizon)]
    /\ UNCHANGED <<cache, app, identity, batch>>

ProjectNext ==
    \E r \in LiveRates, g \in GrowthRates, y \in 1..MaxYears : Project(r, g, y)

ProjectSpec == Init /\ [][ProjectNext]_vars

(***************************************************************************)
(* Properties of get_fx_rate and its cache (checked under Spec).           *)
(***************************************************************************)
Called == last.fn = "get_fx_rate"

\* The body ran (no fresh entry was served) for a pair of two currencies.
Resolved == Called /\ last.home # last.foreign /\ ~last.hit

DirectFailed == Resolved /\ ~(last.direct.kind = "data" /\ last.direct.price[1] > 0)

InverseFailed ==
    DirectFailed /\ ~(last.inverse.kind = "data" /\ last.inverse.price[1] > 0)

\* C1: get_fx_rate(C, C) returns exactly 1.0 and looks up no symbol,
\* neither the direct nor the inverse one.
SameCurrencyIsOne ==
    (Called /\ last.home = last.foreign)
        => (last.ret = <<1, 1>> /\ last.queries = <<>>)

SameCurrencyCalled ==
    Called /\ last.home = last.foreign /\ ~last.hit /\ last.ret = <<1, 1>>

\* C2: for home # foreign, a positive most recent close r of the direct
\* symbol foreign+home is the result, and the inverse symbol is not used.
DirectQuoteIsRate ==
    (Resolved /\ last.direct.kind = "data" /\ last.direct.price[1] > 0)
        => /\ last.ret = last.direct.price
           /\ last.queries = <<last.foreign \o last.home \o "=X">>

DirectQuoteUsed ==
    /\ Resolved /\ last.direct.kind = "data"
    /\ last.direct.price = <<5, 6>> /\ last.ret = <<5, 6>>

\* C3: for home # foreign, when the direct quote is empty, non-positive
\* (or NaN) or its query raised, and the inverse symbol home+foreign has a
\* positive most recent close p, the result is 1/p, whichever way the direct
\* quote failed.
InverseQuoteIsInverted ==
    (DirectFailed /\ last.inverse.kind = "data" /\ last.inverse.price[1] > 0)
        => /\ RMul(last.ret, last.inverse.price) = <<1, 1>>
           /\ last.queries = <<last.foreign \o last.home \o "=X",
                               last.home \o last.foreign \o "=X">>

InverseQuoteUsed ==
    /\ DirectFailed /\ last.direct.kind = "raised"
    /\ last.inverse.kind = "data" /\ last.inverse.price = <<5, 6>>
    /\ last.ret = <<6, 5>>

\* C4: for home # foreign, when both attempts fail the call emits one
\* warning, which names the pair (no other pair has the same text), and
\* returns 1.0.
BothFailWarnsAndReturnsOne ==
    InverseFailed
        => /\ last.ret = <<1, 1>>
           /\ Len(last.warnings) = 1
           /\ last.warnings[1] = "Could not fetch FX rate for " \o last.foreign
                  \o "/" \o last.home \o ". Please enter rate manually."
           /\ \A k \in Keys :
                  k # <<last.home, last.foreign>>
                      => FetchWarning(k[1], k[2]) # last.warnings[1]

BothFailed ==
    /\ InverseFailed /\ last.direct.kind = "empty"
    /\ last.inverse.kind = "data" /\ last.inverse.price = <<-1, 1>>

\* C5: every rate returned by get_fx_rate and every rate stored in the cache
\* is strictly greater than 0.
RatesPositive ==
    /\ Called => (last.ret[1] > 0 /\ last.ret[2] > 0)
    /\ \A k \in Keys :
          cache[k].state = "cached" => (cache[k].rate[1] > 0 /\ cache[k].rate[2] > 0)

NonPositiveQuoteSeen ==
    /\ Resolved /\ last.direct.kind = "data" /\ last.direct.price = <<0, 1>>
    /\ last.inverse.kind = "data" /\ last.inverse.price = <<-1, 1>>
    /\ cache[<<last.home, last.foreign>>].state = "cached"

\* C6: what get_fx_rate hands to its caller tells a degraded fallback from a
\* resolved rate: two results with the same value are either both
\* placeholders or both resolved.
DegradedSignalled ==
    \A k \in Keys :
        (/\ Called /\ last.home # last.foreign /\ k[1] # k[2]
         /\ cache[k].state = "cached" /\ cache[k].rate = last.ret)
            => ((cache[k].warnings # <<>>) <=> (last.warnings # <<>>))

\* C7 as stated: the result is 1.0 exactly when home = foreign.
OneOnlyForSameCurrency ==
    Called => ((last.ret = <<1, 1>>) <=> (last.home = last.foreign))

\* C7 amended: get_fx_rate(C, C) is 1.0; for home # foreign a resolution
\* returns 1.0 exactly when the close it uses is itself 1.0 (the direct
\* close, or the inverse close after a failed direct attempt) or when both
\* attempts fail.
OneForSameParityOrFallback ==
    /\ (Called /\ last.home = last.foreign) => last.ret = <<1, 1>>
    /\ Resolved =>
          ((last.ret = <<1, 1>>) <=>
              \/ (~DirectFailed /\ last.direct.price = <<1, 1>>)
              \/ (DirectFailed /\ ~InverseFailed /\ last.inverse.price = <<1, 1>>)
              \/ InverseFailed)

ParityOrFallbackSeen ==
    /\ InverseFailed /\ last.ret = <<1, 1>>
    /\ cache[<<last.foreign, last.home>>].state = "cached"
    /\ cache[<<last.foreign, last.home>>].rate = <<1, 1>>
    /\ cache[<<last.foreign, last.home>>].warnings = <<>>

\* C8: a call for a pair whose entry is stored and younger than the ttl
\* returns the stored rate without looking up a symbol and leaves the cache
\* as it is; a call that resolves stores its result under its own pair and
\* touches no entry of another pair.
CachedPerPair ==
    [][last'.seq # last.seq =>
          LET k == <<last'.home, last'.foreign>>
          IN  IF cache[k].state = "cached" /\ cache[k].age < 3600
              THEN /\ last'.ret = cache[k].rate
                   /\ last'.queries = <<>>
                   /\ cache' = cache
              ELSE /\ cache'[k].state = "cached"
                   /\ cache'[k].rate = last'.ret
                   /\ \A j \in Keys : j # k => cache'[j] = cache[j]]_vars

CacheHitSeen ==
    /\ Called /\ last.hit /\ last.home # last.foreign /\ last.ret = <<6, 5>>
    /\ cache[<<last.home, last.foreign>>].state = "cached"
    /\ cache[<<last.home, last.foreign>>].age = TickSeconds
    /\ cache[<<last.foreign, last.home>>].state = "cached"
    /\ cache[<<last.foreign, last.home>>].rate = <<5, 6>>

\* C21: an entry of the rate cache moves only absent -> (resolving) ->
\* cached -> expired -> absent, and cached -> absent on a clear: it becomes
\* cached only by a call that found no servable entry and ran the body, it is
\* served only while cached and younger than the ttl, an expired entry is
\* never served, and a lookup that meets an expired or absent entry resolves
\* again.
EntryLifecycle ==
    [][\A k \in Keys :
          LET call == last'.seq # last.seq /\ k = <<last'.home, last'.foreign>>
          IN  /\ cache[k].state = "cached" => cache[k].age < 3600
              /\ cache'[k] # cache[k] =>
                    \/ /\ call /\ ~last'.hit
                       /\ cache[k].state \in {"absent", "expired"}
                       /\ cache'[k] = [state |-> "cached", rate |-> last'.ret,
                                       warnings |-> last'.warnings, age |-> 0]
                    \/ /\ cache[k].state = "cached" /\ cache'[k].state = "cached"
                       /\ cache'[k].rate = cache[k].rate
                       /\ cache[k].age < cache'[k].age /\ cache'[k].age < 3600
                    \/ /\ cache[k].state = "cached"
                       /\ cache'[k] = [state |-> "expired"]
                    \/ /\ cache[k].state \in {"cached", "expired"}
                       /\ cache'[k] = [state |-> "absent"]
              /\ call =>
                    IF cache[k].state = "cached"
                    THEN /\ last'.hit /\ last'.ret = cache[k].rate
                         /\ last'.queries = <<>> /\ cache'[k] = cache[k]
                    ELSE /\ ~last'.hit
                         /\ cache'[k].state = "cached" /\ cache'[k].age = 0]_vars

ExpiredThenResolvedAgain ==
    /\ Called /\ last.home # last.foreign
    /\ last.found = "expired" /\ ~last.hit /\ Len(last.queries) = 2
    /\ cache[<<last.home, last.foreign>>].state = "cached"
    /\ cache[<<last.home, last.foreign>>].age = 0
    /\ cache[<<last.foreign, last.home>>].state = "absent"

\* C23: whatever the market-data source does (a close, an empty history,
\* a close of zero or below, NaN, an error or a timeout, on either query),
\* a call of get_fx_rate can always be made and returns a rate, not an
\* exception; it looks up at most two symbols, the direct one first, and
\* the inverse one only when the direct one gave no positive close.
AlwaysReturnsWithinTwoQueries ==
    /\ \A h \in Currencies, f \in Currencies : ENABLED GetFxRate(h, f)
    /\ Called =>
          /\ last.ret[1] > 0 /\ last.ret[2] > 0
          /\ Len(last.queries) <= 2
          /\ Len(last.queries) >= 1 =>
                last.queries[1] = last.foreign \o last.home \o "=X"
          /\ Len(last.queries) = 2 =>
                /\ last.queries[2] = last.home \o last.foreign \o "=X"
                /\ ~(last.direct.kind = "data" /\ last.direct.price[1] > 0)
          /\ Resolved =>
                Len(last.queries) =
                    IF last.direct.kind = "data" /\ last.direct.price[1] > 0
                    THEN 1 ELSE 2

BothQueriesRaised ==
    /\ Resolved /\ last.direct.kind = "raised" /\ last.inverse.kind = "raised"
    /\ last.ret = <<1, 1>> /\ Len(last.queries) = 2
    /\ cache[<<last.home, last.foreign>>].state = "cached"

\* C25: the fallback is stored like a resolved rate: a call in which both
\* attempts failed leaves an entry with the rate 1.0 and its warning, and
\* while that entry is stored (until the ttl has passed or the cache is
\* cleared) every call for the pair returns 1.0 with the warning and looks
\* up no symbol, whatever the market-data source would answer by then.
FallbackIsCached ==
    [][last'.seq # last.seq =>
          LET k == <<last'.home, last'.foreign>>
          IN  /\ (~last'.hit /\ last'.warnings # <<>>) =>
                    cache'[k] = [state |-> "cached", rate |-> <<1, 1>>,
                                 warnings |-> last'.warnings, age |-> 0]
              /\ (cache[k].state = "cached" /\ cache[k].warnings # <<>>) =>
                    /\ last'.hit /\ last'.ret = <<1, 1>>
                    /\ last'.queries = <<>>
                    /\ last'.warnings = cache[k].warnings
                    /\ cache' = cache
                    /\ \A qd \in Quotes, qi \in Quotes :
                          CachedCall(cache, k[1], k[2],
                                     FxBody(k[1], k[2], qd, qi)).ret = <<1, 1>>]_vars

FallbackServedLater ==
    /\ Called /\ last.home # last.foreign /\ last.hit
    /\ last.ret = <<1, 1>> /\ last.warnings # <<>> /\ last.queries = <<>>
    /\ last.since = TickSeconds
    /\ cache[<<last.home, last.foreign>>].state = "cached"

(***************************************************************************)
(* Properties of the two cached functions (checked under BatchSpec).       *)
(***************************************************************************)
\* C22: every rate handed to a caller, by get_fx_rate or in the dict of
\* get_all_fx_rates, was resolved less than one ttl (3600 s) before the call
\* that hands it out; a rate resolved a ttl or more ago, or before a clear,
\* is resolved again first.
ServedWithinTTL ==
    /\ Called => last.since < 3600
    /\ last.fn = "get_all_fx_rates" =>
          \A f \in DOMAIN last.ret : last.since[f] < 3600

(***************************************************************************)
(* Properties of the app (checked under AppSpec).                          *)
(***************************************************************************)
\* C9: the run that handles 'Refresh FX Rates' leaves the sidebar with every
\* cached rate entry removed and with the session state (home currency,
\* source rows, tax rate, projection settings, stored FX inputs) as it was.
RefreshOnlyClearsRates ==
    [][(pc = "sidebar" /\ clicked) =>
          /\ \A k \in Keys : cache'[k] = [state |-> "absent"]
          /\ ss' = ss]_vars

RefreshedWithInputs ==
    /\ pc = "equity" /\ clicked
    /\ \A k \in Keys : cache[k].state = "absent"
    /\ ss.home = "EUR"
    /\ ss.rows["Equity"][1].curr = "USD" /\ ss.fx["Equity"][1].set
    /\ ss.rows["Debt"][1].amt = <<500000, 1>>

RECURSIVE SumValues(_, _)
SumValues(details, weighted) ==
    IF details = <<>> THEN <<0, 1>>
    ELSE LET d == Head(details)
             x == IF weighted THEN RMul(d.home_value, d.cost_rate)
                  ELSE d.home_value
         IN  RAdd(x, SumValues(Tail(details), weighted))

\* C10: for each capital class, total_value is the sum of the converted
\* values of its sources, the weighted sum is the sum of converted value x
\* cost rate, and the blended cost is weighted sum / total_value when
\* total_value > 0 and exactly 0 when total_value = 0, never a division by
\* zero (between an interaction and its run the totals on the page are those
\* of the rows before the interaction).
BlendedCostIsWeightedAverage ==
    \A t \in Types :
        agg[t].done =>
            /\ pc # "sidebar" => Len(agg[t].details) = ss.num[t]
            /\ agg[t].total_value = SumValues(agg[t].details, FALSE)
            /\ agg[t].total_weighted_cost = SumValues(agg[t].details, TRUE)
            /\ agg[t].cost[2] # 0
            /\ agg[t].total_value[1] > 0
                  => RMul(agg[t].cost, agg[t].total_value) = agg[t].total_weighted_cost
            /\ agg[t].total_value[1] = 0 => agg[t].cost = <<0, 1>>

TwoCostsBlendedAndZeroTotal ==
    /\ agg["Equity"].done /\ agg["Debt"].done
    /\ Len(agg["Equity"].details) = 2
    /\ agg["Equity"].details[1].cost_rate # agg["Equity"].details[2].cost_rate
    /\ agg["Equity"].details[1].home_value # agg["Equity"].details[2].home_value
    /\ agg["Equity"].total_value[1] > 0
    /\ Len(agg["Debt"].details) = 1
    /\ agg["Debt"].total_value = <<0, 1>>

\* The run is over (at its end or at st.stop()) and the page shows what the
\* call for class t returned, with the settings now in ss.
Shown(t) == pc = "idle" /\ agg[t].done

\* C11: a source in the reporting currency is never converted: its
\* converted value is its principal, its effective rate is 1.0, get_fx_rate
\* is not called for it, and no FX rate input is stored for it.
SameCurrencyNotConverted ==
    \A t \in Types :
        Shown(t) =>
            \A n \in 1..Len(agg[t].details) :
                LET d == agg[t].details[n]
                IN  d.currency = ss.home =>
                        /\ d.home_value = d.amount
                        /\ d.effective = <<1, 1>>
                        /\ ~d.called
                        /\ d.fx_rate = Dash
                        /\ ~ss.fx[t][n].set

SameCurrencySourceSeen ==
    /\ pc = "idle" /\ ss.home = "EUR" /\ ss.num["Equity"] = 2
    /\ agg["Equity"].done /\ Len(agg["Equity"].details) = 2
    /\ agg["Equity"].details[1].called
    /\ agg["Equity"].details[2].currency = "EUR"
    /\ agg["Equity"].details[2].amount = <<500000, 1>>
    /\ agg["Equity"].details[2].home_value = <<500000, 1>>
    /\ \A k \in Keys : k[1] = k[2] => cache[k].state = "absent"

\* C12: a foreign source is converted as principal x effective rate, and
\* unless the user typed a rate into its FX rate input the effective rate is
\* the rate get_fx_rate resolved when projection is off and the
\* growth-projected rate when projection is on.
ForeignConvertedAtResolvedOrProjected ==
    \A t \in Types :
        Shown(t) =>
            \A n \in 1..Len(agg[t].details) :
                LET d == agg[t].details[n]
                IN  d.currency # ss.home =>
                        /\ d.home_value = RMul(d.amount, d.effective)
                        /\ ~d.typed =>
                              d.effective =
                                  IF ss.use_fx_growth
                                  THEN RMul(d.live_rate,
                                            RPow(RAdd(One, FxGrowthRate(ss)),
                                                 FxTimeHorizon(ss)))
                                  ELSE d.live_rate

\* C13: a rate that comes out of the FX rate input at 0 or below, whether
\* resolved, projected or typed, is replaced by 1.0 with one error that
\* names the number of the source; a rate above 0 is used as it is, without
\* an error; no source is converted at a rate of 0 or below.
NonPositiveRateReplaced ==
    \A t \in Types :
        Shown(t) =>
            \A n \in 1..Len(agg[t].details) :
                LET d == agg[t].details[n]
                IN  d.called =>
                        /\ d.widget[2] > 0
                        /\ d.widget[1] <= 0 =>
                              /\ d.effective = <<1, 1>>
                              /\ d.errors = <<"Invalid FX rate for source "
                                                \o ToString(n) \o ". Must be > 0.">>
                        /\ d.widget[1] > 0 =>
                              (d.effective = d.widget /\ d.errors = <<>>)
                        /\ d.effective[1] > 0 /\ d.effective[2] > 0
                        /\ d.home_value = RMul(d.amount, d.effective)

NonPositiveRatesTyped ==
    /\ pc = "idle" /\ agg["Equity"].done /\ Len(agg["Equity"].details) = 1
    /\ agg["Equity"].details[1].widget = <<0, 1>>
    /\ agg["Equity"].details[1].errors = <<InvalidRateError(1)>>
    /\ agg["Equity"].details[1].home_value = <<100000, 1>>
    /\ agg["Debt"].done /\ Len(agg["Debt"].details) = 1
    /\ agg["Debt"].details[1].widget = <<-1, 1>>
    /\ agg["Debt"].details[1].errors = <<InvalidRateError(1)>>
    /\ result.status = "computed"

\* The script run reached its end or its st.stop(), and the page shows it.
Ran == result.status # "none" /\ agg["Equity"].done /\ agg["Debt"].done

\* C14: when equity value + debt value is exactly zero, and only then, the
\* run shows the zero-total warning and stops: no weight and no WACC is
\* computed, so nothing is divided by the total; with no equity and no debt
\* source at all the blended costs are 0 and the run stops the same way.
ZeroTotalStops ==
    Ran =>
        LET V == RAdd(agg["Equity"].total_value, agg["Debt"].total_value)
        IN  /\ (V = <<0, 1>>) <=> (result.status = "stopped")
            /\ result.status = "stopped" =>
                  /\ result.messages = <<"Total firm value is zero.">>
                  /\ DOMAIN result = {"status", "total_firm_value", "messages"}
                  /\ \A t \in Types : agg[t].cost = <<0, 1>>
            /\ result.status = "computed" =>
                  /\ result.total_firm_value = V /\ V[1] > 0
                  /\ result.equity_weight[2] > 0 /\ result.debt_weight[2] > 0

NoSourcesStopped ==
    /\ pc = "idle" /\ Ran /\ result.status = "stopped"
    /\ ss.num["Equity"] = 0 /\ ss.num["Debt"] = 0
    /\ agg["Equity"].details = <<>> /\ agg["Debt"].details = <<>>

\* C15: when the total V = E + D is above zero, equity_weight = E / V,
\* debt_weight = D / V, tax_shield = 1 - tax_rate and
\* wacc = equity_weight x Re + debt_weight x Rd x tax_shield; equity 500,000
\* at 10% and debt 500,000 at 5%, all in the home currency, at a tax rate of
\* 20% give weights 0.5 and 0.5 and a WACC of 7.0%.
WaccIsWeightedAfterTaxCost ==
    (Ran /\ pc = "idle" /\ result.status = "computed") =>
        LET E == agg["Equity"].total_value
            D == agg["Debt"].total_value
            Re == agg["Equity"].cost
            Rd == agg["Debt"].cost
            tax == <<ss.tax_pct[1], ss.tax_pct[2] * 100>>
            V == result.total_firm_value
        IN  /\ V = RAdd(E, D)
            /\ RMul(result.equity_weight, V) = E
            /\ RMul(result.debt_weight, V) = D
            /\ RAdd(result.tax_shield, tax) = <<1, 1>>
            /\ result.wacc =
                   RAdd(RMul(result.equity_weight, Re),
                        RMul(result.debt_weight, RMul(Rd, result.tax_shield)))
            /\ (/\ E = <<500000, 1>> /\ Re = <<1, 10>>
                /\ D = <<500000, 1>> /\ Rd = <<1, 20>> /\ tax = <<20, 100>>)
                   => /\ result.equity_weight = <<1, 2>>
                      /\ result.debt_weight = <<1, 2>>
                      /\ result.wacc = <<7, 100>>

HalfEquityHalfDebt ==
    /\ pc = "idle" /\ Ran /\ result.status = "computed"
    /\ agg["Equity"].total_value = <<500000, 1>> /\ agg["Equity"].cost = <<1, 10>>
    /\ agg["Debt"].total_value = <<500000, 1>> /\ agg["Debt"].cost = <<1, 20>>
    /\ ss.tax_pct = <<20, 1>>
    /\ \A t \in Types : \A n \in 1..Len(agg[t].details) :
           agg[t].details[n].currency = ss.home
    /\ result.wacc = <<7, 100>>

\* C18: projecting by 0% gives the rate back for every horizon, and with
\* projection enabled at a growth rate of 0 a foreign source whose FX rate
\* input the user did not type into is converted at the rate get_fx_rate
\* resolved, as it is with projection disabled.
ZeroGrowthKeepsResolvedRate ==
    \A t \in Types :
        (Shown(t) /\ ss.use_fx_growth /\ ss.growth_pct = <<0, 1>>) =>
            \A n \in 1..Len(agg[t].details) :
                LET d == agg[t].details[n]
                IN  d.called =>
                        /\ ProjectedRate(d.live_rate, <<0, 1>>, ss.horizon)
                               = d.live_rate
                        /\ d.default_fx_rate = d.live_rate
                        /\ ~d.typed => d.effective = d.live_rate

\* render_capital_sources of class t, called again where the call before
\* left the cache and the widgets, returns the totals of the call before.
SameAgain(t) ==
    \A r \in RenderCapitalSources(cache, ss, t) :
        /\ r.total_value = agg[t].total_value
        /\ r.total_weighted_cost = agg[t].total_weighted_cost
        /\ BlendedCost(r.total_value, r.total_weighted_cost) = agg[t].cost

\* C19: a second aggregation of a class with the sources, home currency and
\* projection settings of the first, after the two calls of a run and before
\* any cache entry expires or is cleared, returns the same total value and the same blended cost, whatever
\* the market-data source would answer to a new query.
AggregationRepeats ==
    pc = "wacc" => (SameAgain("Equity") /\ SameAgain("Debt"))

ForeignSourcesAggregated ==
    /\ pc = "wacc" /\ ss.home = "EUR" /\ ss.use_fx_growth
    /\ agg["Equity"].details[1].live_rate = <<5, 6>>
    /\ agg["Equity"].details[1].hit = FALSE
    /\ agg["Equity"].total_value # <<100000, 1>>
    /\ agg["Debt"].details[1].hit = TRUE
    /\ Cardinality(Resolutions[<<"EUR", "USD">>]) > 1
    /\ SameAgain("Equity") /\ SameAgain("Debt")

\* C20: the two render_capital_sources calls and the WACC section of a run
\* write nothing that outlives the run except rate cache entries: the
\* prev_curr entries and the stored FX rate inputs of st.session_state are
\* after each of the three steps what they were before it.
NoStateKeptAcrossCalls ==
    [][(pc \in {"equity", "debt", "wacc"}) =>
          /\ ss'.prev = ss.prev
          /\ ss'.fx = ss.fx]_vars

\* C26: the 'Using manual rate' notice of a foreign source is drawn when
\* the user typed a (valid) rate into its FX rate input and is not drawn
\* when the input still holds the rate the app put there, with projection
\* on or off.
ManualNoticeOnlyWhenTyped ==
    \A t \in Types :
        Shown(t) =>
            \A n \in 1..Len(agg[t].details) :
                LET d == agg[t].details[n]
                IN  d.called =>
                        /\ (d.typed /\ ~d.invalid) => d.manual
                        /\ ~d.typed => ~d.manual

(***************************************************************************)
(* Properties of the validation and WACC sections (checked under WaccSpec).*)
(***************************************************************************)
\* C16: a WACC below 0 or above 1.0 only adds one message: the run is not
\* stopped, and the WACC shown is the value the formula gives, as it is for
\* a WACC within 0..1.0, which adds no message.
AnomalyIsAdvisory ==
    (pc = "idle" /\ Ran) =>
        LET E == agg["Equity"].total_value
            D == agg["Debt"].total_value
            tax == <<ss.tax_pct[1], ss.tax_pct[2] * 100>>
            V == RAdd(E, D)
            w == RDiv(RAdd(RMul(E, agg["Equity"].cost),
                           RMul(RMul(D, agg["Debt"].cost), RSub(<<1, 1>>, tax))),
                      V)
        IN  V # <<0, 1>> =>
                /\ result.status = "computed"
                /\ result.wacc = w
                /\ w[1] < 0 => result.messages = <<"Negative WACC detected.">>
                /\ w[1] > w[2] => result.messages = <<"WACC exceeds 100%.">>
                /\ (w[1] >= 0 /\ w[1] <= w[2]) => result.messages = <<>>

NegativeWaccShown ==
    /\ pc = "idle" /\ Ran /\ result.status = "computed"
    /\ result.wacc = <<-1, 20>> /\ result.messages = <<NegativeWaccError>>

HighWaccShown ==
    /\ pc = "idle" /\ Ran /\ result.status = "computed"
    /\ result.wacc = <<3, 2>> /\ result.messages = <<HighWaccWarning>>

(***************************************************************************)
(* Properties of the projection (checked under ProjectSpec).               *)
(***************************************************************************)
Projected == last.fn = "project"

\* The projection is rate x (1 + growth)^years, said by induction on the
\* years: one year multiplies the rate by 1 + growth, each further year
\* multiplies the projection of the year before by 1 + growth; for growth
\* below zero the result is below the rate, nothing holds it up.
CompoundsEveryYear ==
    Projected =>
        LET r == last.live_rate
            g == last.fx_growth_rate
            y == last.fx_time_horizon
            p == last.projected_rate
            before == IF y = 1 THEN [num |-> WNat(r[1]), den |-> WNat(r[2])]
                      ELSE ProjectedRateWide(r, g, y - 1)
        IN  /\ p.num = WMul(before.num, g[1] + g[2])
            /\ p.den = WMul(before.den, g[2])
            /\ (y <= 2 /\ p.num[1] = 0 /\ p.den[1] = 0)
                   => Rat(p.num[2], p.den[2]) = ProjectedRate(r, g, y)
            /\ g[1] < 0 => LongDiv(p.num, p.den, 4).q < LongDiv(before.num, before.den, 4).q

\* C17 as stated: the compound formula, and 1.05 at 3% over 5 years is
\* 1.2174 to four decimals.
ProjectionCompoundsTo12174 ==
    /\ CompoundsEveryYear
    /\ (/\ Projected /\ last.live_rate = <<21, 20>>
        /\ last.fx_growth_rate = <<3, 100>> /\ last.fx_time_horizon = 5)
           => Rounded(last.projected_rate.num, last.projected_rate.den, 4) = 12174

\* C17 amended: the compound formula, for every rate, growth (negative too)
\* and horizon, without floor or clamp; 1.05 at 3% over 5 years is
\* 243447555603 / 200000000000, which is 1.2172 to four decimals.
ProjectionCompoundsTo12172 ==
    /\ CompoundsEveryYear
    /\ (/\ Projected /\ last.live_rate = <<21, 20>>
        /\ last.fx_growth_rate = <<3, 100>> /\ last.fx_time_horizon = 5)
           => /\ last.projected_rate = [num |-> <<243447, 555603>>,
                                        den |-> <<200000, 0>>]
              /\ Rounded(last.projected_rate.num, last.projected_rate.den, 4) = 12172

FiveYearsAtThreePercent ==
    /\ Projected /\ last.live_rate = <<21, 20>>
    /\ last.fx_growth_rate = <<3, 100>> /\ last.fx_time_horizon = 5
    /\ LongDiv(last.projected_rate.num, last.projected_rate.den, 6).q = 1217237

SelectionResetsRate ==
    [][\A t \in Types :
          (pc = (IF t = "Equity" THEN "equity" ELSE "debt") /\ agg'[t].done) =>
              \A n \in 1..Len(agg'[t].details) :
                  LET d == agg'[t].details[n]
                      pair == <<ss.home, d.currency>>
                      moved == \/ ~ss.fx[t][n].set
                               \/ ss.fx[t][n].key # pair
                               \/ ss.prev[t][n] \notin {"unset", d.currency}
                  IN  /\ d.currency = ss.rows[t][n].curr
                      /\ ~d.called => ~ss'.fx[t][n].set
                      /\ d.called =>
                            /\ ss'.fx[t][n].set /\ ss'.fx[t][n].key = pair
                            /\ ss'.fx[t][n].value = d.widget
                            /\ ss'.prev[t][n] = d.currency
                            /\ d.live_rate = cache'[pair].rate
                      /\ (d.called /\ moved) =>
                            /\ d.widget =
                                  IF ss.use_fx_growth
                                  THEN RMul(d.live_rate,
                                            RPow(RAdd(<<1, 1>>, FxGrowthRate(ss)),
                                                 FxTimeHorizon(ss)))
                                  ELSE d.live_rate
                            /\ ~d.typed /\ ~ss'.fx[t][n].typed]_vars

BackAfterTypedRate ==
    /\ pc = "idle" /\ events = 3 /\ ss.home = "USD"
    /\ ss.rows["Equity"][1].curr = "EUR" /\ ss.prev["Equity"][1] = "EUR"
    /\ cache[<<"USD", "GBP">>].state = "cached"
    /\ cache[<<"USD", "EUR">>].rate = <<5, 6>>
    /\ agg["Equity"].done /\ agg["Equity"].details[1].hit
    /\ agg["Equity"].details[1].widget = <<5, 6>>
    /\ ~ss.fx["Equity"][1].typed

====
